---- MODULE Spec2Model ----
(***************************************************************************)
(* Model of the m3ufilter playlist filter (filterM3u / parseFileAsString)  *)
(* in its two implementations, and of the request handler handleGetm3u.    *)
(*                                                                         *)
(* A JavaScript string is a sequence of one-character strings.  A value    *)
(* that may be null or undefined is a sequence of length 0 (null,          *)
(* undefined) or of length 1 (the value).  Arrays are sequences; the loop  *)
(* index i is zero-based as in the code, so element i of an array a is     *)
(* a[i + 1].                                                               *)
(***************************************************************************)
EXTENDS Integers, Sequences, FiniteSets, TLC

\* a call of filterM3u: which implementation, its argument, the position in
\* parseFileAsString, its locals, its return value; pass and firstResult are
\* the caller's, which filters a playlist and then filters the result again
VARIABLES variant, options, pc, fileContentLines, i, output, currentGroup,
          currentGroupIncluded, result, pass, firstResult

\* a request to handleGetm3u: the query, the configuration file on disk, what
\* the remote server will answer, the position in the handler, what was sent
VARIABLES req, configOnDisk, upstream, hpc, filterOptions, res, downloads,
          filterCalls

fvars == <<variant, options, pc, fileContentLines, i, output, currentGroup,
           currentGroupIncluded, result, pass, firstResult>>
hvars == <<req, configOnDisk, upstream, hpc, filterOptions, res, downloads,
           filterCalls>>
vars == <<fvars, hvars>>

(***************************************************************************)
(* Bounds of the model.                                                    *)
(***************************************************************************)
MaxLines == 3

(***************************************************************************)
(* null / undefined and JavaScript truthiness.                             *)
(***************************************************************************)
None == <<>>
Some(x) == <<x>>
IsNone(v) == v = <<>>
Truthy(v) == v # <<>> /\ v[1] # <<>>
\* a || b on values that are a string or null
OrElse(a, b) == IF Truthy(a) THEN a ELSE b

SetMin(S) == CHOOSE x \in S : \A y \in S : x <= y
SetMax(S) == CHOOSE x \in S : \A y \in S : x >= y

(***************************************************************************)
(* String operations of the JavaScript runtime, as the code uses them.     *)
(***************************************************************************)
IsSpace(c) == c \in {" ", "\t", "\r", "\n"}

\* String.prototype.trim
trim(s) ==
    LET keep == {k \in 1..Len(s) : ~IsSpace(s[k])}
    IN  IF keep = {} THEN <<>> ELSE SubSeq(s, SetMin(keep), SetMax(keep))

\* the literal lit occurs in s at (one-based) position p
LitAt(s, p, lit) ==
    /\ p + Len(lit) - 1 <= Len(s)
    /\ SubSeq(s, p, p + Len(lit) - 1) = lit

\* String.prototype.startsWith / endsWith / includes
startsWith(s, prefix) == LitAt(s, 1, prefix)
endsWith(s, suffix) ==
    Len(suffix) <= Len(s) /\ SubSeq(s, Len(s) - Len(suffix) + 1, Len(s)) = suffix
includes(s, sub) == \E p \in 1..(Len(s) + 1) : LitAt(s, p, sub)

UpperCaseLetters ==
    <<"A","B","C","D","E","F","G","H","I","J","K","L","M",
      "N","O","P","Q","R","S","T","U","V","W","X","Y","Z">>
LowerCaseLetters ==
    <<"a","b","c","d","e","f","g","h","i","j","k","l","m",
      "n","o","p","q","r","s","t","u","v","w","x","y","z">>
LowerChar(c) ==
    IF \E k \in 1..Len(UpperCaseLetters) : UpperCaseLetters[k] = c
    THEN LowerCaseLetters[CHOOSE k \in 1..Len(UpperCaseLetters) : UpperCaseLetters[k] = c]
    ELSE c
\* String.prototype.toLowerCase
toLowerCase(s) == [k \in 1..Len(s) |-> LowerChar(s[k])]

\* String.prototype.split(sep), sep one character
RECURSIVE splitOn(_, _)
splitOn(s, sep) ==
    LET at == {k \in 1..Len(s) : s[k] = sep}
    IN  IF at = {} THEN <<s>>
        ELSE <<SubSeq(s, 1, SetMin(at) - 1)>>
                 \o splitOn(SubSeq(s, SetMin(at) + 1, Len(s)), sep)

\* String.prototype.split("\n")
split(s) == splitOn(s, "\n")

\* Array.prototype.join("\n")
RECURSIVE join(_)
join(lines) ==
    IF Len(lines) = 0 THEN <<>>
    ELSE IF Len(lines) = 1 THEN lines[1]
    ELSE lines[1] \o <<"\n">> \o join(Tail(lines))

\* Array.prototype.includes / Set.prototype.has on an array of strings
arrayIncludes(arr, x) == \E k \in 1..Len(arr) : arr[k] = x

(***************************************************************************)
(* Regular expressions of the code.  Each is a key followed either by a    *)
(* quoted run (a quote, any characters but the quote, the quote again) or  *)
(* by an unquoted run (one or more characters that are neither a comma nor *)
(* white space, quote ""); line.match gives the capture of the leftmost    *)
(* match, or null.                                                         *)
(***************************************************************************)
GroupTitleKey == <<"g","r","o","u","p","-","t","i","t","l","e","=">>
TvgNameKey == <<"t","v","g","-","n","a","m","e","=">>

Regex(key, quote) == [key |-> key, quote |-> quote]

matchQuoted(line, key, q) ==
    LET lit == key \o <<q>>
        closes(p) == {j \in (p + Len(lit))..Len(line) : line[j] = q}
        starts == {p \in 1..Len(line) : LitAt(line, p, lit) /\ closes(p) # {}}
    IN  IF starts = {} THEN None
        ELSE LET p == SetMin(starts)
             IN  Some(SubSeq(line, p + Len(lit), SetMin(closes(p)) - 1))

matchUnquoted(line, key) ==
    LET isDelim(c) == c = "," \/ IsSpace(c)
        first(p) == p + Len(key)
        starts == {p \in 1..Len(line) :
                      /\ LitAt(line, p, key)
                      /\ first(p) <= Len(line)
                      /\ ~isDelim(line[first(p)])}
    IN  IF starts = {} THEN None
        ELSE LET p == SetMin(starts)
                 stops == {j \in first(p)..Len(line) : isDelim(line[j])}
                 last == IF stops = {} THEN Len(line) ELSE SetMin(stops) - 1
             IN  Some(SubSeq(line, first(p), last))

\* line.match(regexp): null, or match[1]
match(line, regexp) ==
    IF regexp.quote = "" THEN matchUnquoted(line, regexp.key)
    ELSE matchQuoted(line, regexp.key, regexp.quote)

groupTitlePatterns ==
    <<Regex(GroupTitleKey, "\""), Regex(GroupTitleKey, "'"), Regex(GroupTitleKey, "")>>
channelNamePatterns ==
    <<Regex(TvgNameKey, "\""), Regex(TvgNameKey, "'"), Regex(TvgNameKey, "")>>

ExtM3uHeader == <<"#","E","X","T","M","3","U">>
ExtInfMarker == <<"#","E","X","T","I","N","F">>
Unknown == <<"U","n","k","n","o","w","n">>

(***************************************************************************)
(* src/src/m3uparser.ts                                                    *)
(***************************************************************************)
extractParameterFromRegex(line, regexp) == match(line, regexp)

extractChannelNameFromTitle(line) ==
    LET commas == {k \in 1..Len(line) : line[k] = ","}
    IN  IF commas # {} THEN Some(trim(SubSeq(line, SetMax(commas) + 1, Len(line))))
        ELSE None

\* the local channelName of shouldChannelBeExcluded
channelNameOf(line) ==
    OrElse(OrElse(OrElse(extractParameterFromRegex(line, channelNamePatterns[1]),
                         extractParameterFromRegex(line, channelNamePatterns[2])),
                  extractParameterFromRegex(line, channelNamePatterns[3])),
           extractChannelNameFromTitle(line))

\* shouldChannelBeExcluded comparing without lower-casing the channel name
shouldChannelBeExcludedCaseSensitive(line, excludedKeywords) ==
    IF IsNone(excludedKeywords) \/ Len(excludedKeywords[1]) = 0 THEN FALSE
    ELSE LET channelName == channelNameOf(line)
         IN  IF Truthy(channelName)
             THEN \E k \in 1..Len(excludedKeywords[1]) :
                     includes(channelName[1], toLowerCase(excludedKeywords[1][k]))
             ELSE FALSE

shouldChannelBeExcluded(line, excludedKeywords) ==
    IF IsNone(excludedKeywords) \/ Len(excludedKeywords[1]) = 0 THEN FALSE
    ELSE LET channelName == channelNameOf(line)
         IN  IF Truthy(channelName)
             THEN \E k \in 1..Len(excludedKeywords[1]) :
                     includes(toLowerCase(channelName[1]),
                              toLowerCase(excludedKeywords[1][k]))
             ELSE FALSE

extractGroupName(line) ==
    OrElse(OrElse(OrElse(extractParameterFromRegex(line, groupTitlePatterns[1]),
                         extractParameterFromRegex(line, groupTitlePatterns[2])),
                  extractParameterFromRegex(line, groupTitlePatterns[3])),
           Some(Unknown))[1]

shouldGroupBeIncluded(group, channelsToInclude) ==
    IF IsNone(channelsToInclude) \/ Len(channelsToInclude[1]) = 0 THEN TRUE
    ELSE IF group = <<>> THEN FALSE
    ELSE arrayIncludes(channelsToInclude[1], group)

shouldAllGroupsBeReturned(opts) ==
    IsNone(opts.groupsToInclude) \/ Len(opts.groupsToInclude[1]) = 0

\* options?.channelsToExclude?.length === 0: undefined === 0 is false
noChannelsToExclude(opts) ==
    ~IsNone(opts.channelsToExclude) /\ Len(opts.channelsToExclude[1]) = 0

convertToStringWithLineBreak(lines) ==
    LET linesAsString == join(lines)
    IN  IF endsWith(linesAsString, <<"\n">>) THEN linesAsString
        ELSE linesAsString \o <<"\n">>

isExcludedLine(line) == startsWith(line, ExtM3uHeader)
isMetadataLine(line) == startsWith(line, ExtInfMarker)

\* the loop state at the top of parseFileAsString's loop
LoopStart == [i |-> 0, output |-> <<ExtM3uHeader>>, currentGroup |-> None,
              currentGroupIncluded |-> FALSE]

\* LoopBody pushing every non-blank other line, whatever the current group
LoopBodyPushAllOtherLines(opts, lines, st) ==
    LET line == trim(lines[st.i + 1])
    IN  IF isExcludedLine(line) THEN [st EXCEPT !.i = @ + 1]
        ELSE IF isMetadataLine(line) THEN
            IF shouldChannelBeExcluded(line, opts.channelsToExclude)
            THEN [st EXCEPT !.i = @ + 2, !.currentGroup = None,
                            !.currentGroupIncluded = FALSE]
            ELSE LET group == extractGroupName(line)
                     included == shouldGroupBeIncluded(group, opts.groupsToInclude)
                     pushed == IF ~included THEN st.output
                               ELSE IF st.i + 1 < Len(lines)
                               THEN st.output \o <<line, trim(lines[st.i + 2])>>
                               ELSE Append(st.output, line)
                 IN  [i |-> st.i + 2, output |-> pushed, currentGroup |-> Some(group),
                      currentGroupIncluded |-> included]
        ELSE IF Len(line) > 0
             THEN [st EXCEPT !.i = @ + 1, !.output = Append(@, line)]
             ELSE [st EXCEPT !.i = @ + 1]

\* one iteration of the for loop, the i++ of the loop header included
LoopBody(opts, lines, st) ==
    LET line == trim(lines[st.i + 1])
    IN  IF isExcludedLine(line) THEN [st EXCEPT !.i = @ + 1]
        ELSE IF isMetadataLine(line) THEN
            IF shouldChannelBeExcluded(line, opts.channelsToExclude)
            THEN [st EXCEPT !.i = @ + 2, !.currentGroup = None,
                            !.currentGroupIncluded = FALSE]
            ELSE LET group == extractGroupName(line)
                     included == shouldGroupBeIncluded(group, opts.groupsToInclude)
                     pushed == IF ~included THEN st.output
                               ELSE IF st.i + 1 < Len(lines)
                               THEN st.output \o <<line, trim(lines[st.i + 2])>>
                               ELSE Append(st.output, line)
                 IN  [i |-> st.i + 2, output |-> pushed, currentGroup |-> Some(group),
                      currentGroupIncluded |-> included]
        ELSE IF st.currentGroupIncluded /\ Len(line) > 0
             THEN [st EXCEPT !.i = @ + 1, !.output = Append(@, line)]
             ELSE [st EXCEPT !.i = @ + 1]

RECURSIVE Loop(_, _, _)
Loop(opts, lines, st) ==
    IF st.i < Len(lines) THEN Loop(opts, lines, LoopBody(opts, lines, st)) ELSE st

parseFileAsString(opts) ==
    IF shouldAllGroupsBeReturned(opts) /\ noChannelsToExclude(opts)
    THEN opts.fileContents
    ELSE convertToStringWithLineBreak(
             Loop(opts, split(opts.fileContents), LoopStart).output)

filterM3u(opts) == parseFileAsString(opts)

(***************************************************************************)
(* src/unnamed/part_001, lines 1-132: the second implementation of the     *)
(* same module.  Its definitions carry the suffix Fast where the name is   *)
(* already taken by src/src/m3uparser.ts.                                  *)
(***************************************************************************)
RECURSIVE extractParameterFromPatterns(_, _)
extractParameterFromPatterns(line, patterns) ==
    IF Len(patterns) = 0 THEN None
    ELSE LET m == match(line, Head(patterns))
         IN  IF ~IsNone(m) THEN m
             ELSE extractParameterFromPatterns(line, Tail(patterns))

extractChannelNameFromTitleFast(line) ==
    LET commas == {k \in 1..Len(line) : line[k] = ","}
    IN  IF commas # {} THEN Some(trim(SubSeq(line, SetMin(commas) + 1, Len(line))))
        ELSE None

\* the local channelName of shouldChannelBeExcludedFast
channelNameOfFast(line, patterns) ==
    OrElse(extractParameterFromPatterns(line, patterns),
           extractChannelNameFromTitleFast(line))

shouldChannelBeExcludedFast(line, excludedChannelsLower, patterns) ==
    LET channelName == channelNameOfFast(line, patterns)
    IN  IF ~Truthy(channelName) THEN FALSE
        ELSE \E k \in 1..Len(excludedChannelsLower) :
                includes(toLowerCase(channelName[1]), excludedChannelsLower[k])

extractGroupNameFast(line, patterns) ==
    OrElse(extractParameterFromPatterns(line, patterns), Some(Unknown))[1]

\* includedGroupsSet is the array the Set was built from
shouldGroupBeIncludedFast(group, includedGroupsSet) ==
    Len(includedGroupsSet) = 0 \/ (group # <<>> /\ arrayIncludes(includedGroupsSet, group))

shouldAllGroupsBeReturnedFast(opts) ==
    IsNone(opts.groupsToInclude) \/ Len(opts.groupsToInclude[1]) = 0

noChannelsToExcludeFast(opts) ==
    IsNone(opts.channelsToExclude) \/ Len(opts.channelsToExclude[1]) = 0

\* options?.channelsToExclude?.map(ch => ch.toLowerCase()) || []
excludedChannelsLowerOf(opts) ==
    IF IsNone(opts.channelsToExclude) THEN <<>>
    ELSE [k \in 1..Len(opts.channelsToExclude[1]) |->
             toLowerCase(opts.channelsToExclude[1][k])]

\* new Set(options?.groupsToInclude || [])
includedGroupsSetOf(opts) ==
    IF IsNone(opts.groupsToInclude) THEN <<>> ELSE opts.groupsToInclude[1]

\* one iteration of the while loop
LoopBodyFast(opts, lines, st) ==
    LET line == trim(lines[st.i + 1])
        excludedChannelsLower == excludedChannelsLowerOf(opts)
    IN  IF line = <<>> \/ line = ExtM3uHeader THEN [st EXCEPT !.i = @ + 1]
        ELSE IF startsWith(line, ExtInfMarker) THEN
            IF /\ Len(excludedChannelsLower) > 0
               /\ shouldChannelBeExcludedFast(line, excludedChannelsLower,
                                              channelNamePatterns)
            THEN [st EXCEPT !.i = @ + 2, !.currentGroup = None,
                            !.currentGroupIncluded = FALSE]
            ELSE LET group == extractGroupNameFast(line, groupTitlePatterns)
                     included == shouldGroupBeIncludedFast(group, includedGroupsSetOf(opts))
                     pushed == IF ~included THEN st.output
                               ELSE IF st.i + 1 < Len(lines)
                               THEN st.output \o <<line, trim(lines[st.i + 2])>>
                               ELSE Append(st.output, line)
                 IN  [i |-> st.i + 2, output |-> pushed, currentGroup |-> Some(group),
                      currentGroupIncluded |-> included]
        ELSE IF st.currentGroupIncluded /\ Len(line) > 0
             THEN [st EXCEPT !.i = @ + 1, !.output = Append(@, line)]
             ELSE [st EXCEPT !.i = @ + 1]

RECURSIVE LoopFast(_, _, _)
LoopFast(opts, lines, st) ==
    IF st.i < Len(lines) THEN LoopFast(opts, lines, LoopBodyFast(opts, lines, st)) ELSE st

\* output.join('\n') + '\n'
joinWithLineBreak(lines) == join(lines) \o <<"\n">>

parseFileAsStringFast(opts) ==
    IF shouldAllGroupsBeReturnedFast(opts) /\ noChannelsToExcludeFast(opts)
    THEN opts.fileContents
    ELSE joinWithLineBreak(LoopFast(opts, split(opts.fileContents), LoopStart).output)

filterM3uFast(opts) == parseFileAsStringFast(opts)

(***************************************************************************)
(* The playlists and rule sets the filter is called with.                  *)
(***************************************************************************)
Sports == <<"S","p","o","r","t","s">>
sports == <<"s","p","o","r","t","s">>
espn == <<"e","s","p","n">>

\* #EXTINF:-1 group-title="Sports",ESPN HD
LineSportsEspn ==
    ExtInfMarker \o <<":","-","1"," ">> \o GroupTitleKey \o <<"\"">> \o Sports
        \o <<"\"",",","E","S","P","N"," ","H","D">>
\* #EXTINF:-1 group-title="",Fox
LineEmptyGroup ==
    ExtInfMarker \o <<":","-","1"," ">> \o GroupTitleKey \o <<"\"","\"",",","F","o","x">>
\* #EXTINF:-1,Espn, Two
LineNoGroup ==
    ExtInfMarker \o <<":","-","1",",","E","s","p","n",","," ","T","w","o">>
\* #EXTINF:-1 tvg-name='Espn 2',Two
LineTvgName ==
    ExtInfMarker \o <<":","-","1"," ">> \o TvgNameKey
        \o <<"'","E","s","p","n"," ","2","'",",","T","w","o">>
\* a line that is neither header, metadata nor blank
LineComment == <<"#","n","o","t","e">>
\* a URL line with white space around it
LineUrl == <<" ","h","t","t","p",":","/","/","a","\r">>
LineBlank == <<>>

LinePool ==
    {ExtM3uHeader, LineSportsEspn, LineEmptyGroup, LineNoGroup, LineTvgName, LineUrl,
     LineComment, LineBlank}

SeqsUpTo(S, n) == UNION {[1..k -> S] : k \in 1..n}

\* every text is the join of its lines; a last line that is blank is a text
\* that ends with a newline
Playlists == {join(ls) : ls \in SeqsUpTo(LinePool, MaxLines)}

GroupsToIncludeChoices ==
    {None, Some(<<>>), Some(<<Sports>>), Some(<<sports>>), Some(<<Unknown>>)}
ChannelsToExcludeChoices == {None, Some(<<>>), Some(<<espn>>)}

FilterIdle ==
    /\ variant = "m3uparser"
    /\ options = [groupsToInclude |-> None, channelsToExclude |-> None,
                  fileContents |-> <<>>]
    /\ pc = "idle"
    /\ fileContentLines = <<>>
    /\ i = 0
    /\ output = <<>>
    /\ currentGroup = None
    /\ currentGroupIncluded = FALSE
    /\ result = None
    /\ pass = 1
    /\ firstResult = None

HandlerIdle ==
    /\ req = [url |-> None, profile |-> None, exclude |-> None, groups |-> None]
    /\ configOnDisk = None
    /\ upstream = [ok |-> FALSE, data |-> <<>>]
    /\ hpc = "idle"
    /\ filterOptions = None
    /\ res = [status |-> None, body |-> None, error |-> None]
    /\ downloads = <<>>
    /\ filterCalls = <<>>

Init ==
    /\ variant \in {"m3uparser", "part_001"}
    /\ \E g \in GroupsToIncludeChoices, c \in ChannelsToExcludeChoices, t \in Playlists :
          options = [groupsToInclude |-> g, channelsToExclude |-> c, fileContents |-> t]
    /\ pc = "call"
    /\ fileContentLines = <<>>
    /\ i = 0
    /\ output = <<>>
    /\ currentGroup = None
    /\ currentGroupIncluded = FALSE
    /\ result = None
    /\ pass = 1
    /\ firstResult = None
    /\ HandlerIdle

LoopState == [i |-> i, output |-> output, currentGroup |-> currentGroup,
              currentGroupIncluded |-> currentGroupIncluded]

SetLoopState(st) ==
    /\ i' = st.i
    /\ output' = st.output
    /\ currentGroup' = st.currentGroup
    /\ currentGroupIncluded' = st.currentGroupIncluded

\* m3uparser.ts: entry of parseFileAsString, up to the loop
Begin ==
    /\ pc = "call" /\ variant = "m3uparser"
    /\ IF shouldAllGroupsBeReturned(options) /\ noChannelsToExclude(options)
       THEN /\ result' = Some(options.fileContents)
            /\ pc' = "done"
            /\ UNCHANGED <<fileContentLines, i, output, currentGroup, currentGroupIncluded>>
       ELSE /\ fileContentLines' = split(options.fileContents)
            /\ SetLoopState(LoopStart)
            /\ pc' = "loop"
            /\ UNCHANGED result
    /\ UNCHANGED <<variant, options, pass, firstResult, hvars>>

\* m3uparser.ts: one iteration of the for loop
Iterate ==
    /\ pc = "loop" /\ variant = "m3uparser"
    /\ i < Len(fileContentLines)
    /\ SetLoopState(LoopBody(options, fileContentLines, LoopState))
    /\ UNCHANGED <<variant, options, pc, fileContentLines, result, pass, firstResult, hvars>>

\* m3uparser.ts: the loop has ended
Return ==
    /\ pc = "loop" /\ variant = "m3uparser"
    /\ i >= Len(fileContentLines)
    /\ result' = Some(convertToStringWithLineBreak(output))
    /\ pc' = "done"
    /\ UNCHANGED <<variant, options, fileContentLines, i, output, currentGroup,
                   currentGroupIncluded, pass, firstResult, hvars>>

\* part_001: entry of parseFileAsString, up to the loop
BeginFast ==
    /\ pc = "call" /\ variant = "part_001"
    /\ IF shouldAllGroupsBeReturnedFast(options) /\ noChannelsToExcludeFast(options)
       THEN /\ result' = Some(options.fileContents)
            /\ pc' = "done"
            /\ UNCHANGED <<fileContentLines, i, output, currentGroup, currentGroupIncluded>>
       ELSE /\ fileContentLines' = split(options.fileContents)
            /\ SetLoopState(LoopStart)
            /\ pc' = "loop"
            /\ UNCHANGED result
    /\ UNCHANGED <<variant, options, pass, firstResult, hvars>>

\* part_001: one iteration of the while loop
IterateFast ==
    /\ pc = "loop" /\ variant = "part_001"
    /\ i < Len(fileContentLines)
    /\ SetLoopState(LoopBodyFast(options, fileContentLines, LoopState))
    /\ UNCHANGED <<variant, options, pc, fileContentLines, result, pass, firstResult, hvars>>

\* part_001: the loop has ended
ReturnFast ==
    /\ pc = "loop" /\ variant = "part_001"
    /\ i >= Len(fileContentLines)
    /\ result' = Some(joinWithLineBreak(output))
    /\ pc' = "done"
    /\ UNCHANGED <<variant, options, fileContentLines, i, output, currentGroup,
                   currentGroupIncluded, pass, firstResult, hvars>>

\* the caller passes the filtered playlist to filterM3u again, same rules
Refilter ==
    /\ pc = "done" /\ pass = 1
    /\ firstResult' = result
    /\ options' = [options EXCEPT !.fileContents = result[1]]
    /\ result' = None
    /\ pass' = 2
    /\ pc' = "call"
    /\ UNCHANGED <<variant, fileContentLines, i, output, currentGroup,
                   currentGroupIncluded, hvars>>

Next == Begin \/ Iterate \/ Return \/ BeginFast \/ IterateFast \/ ReturnFast \/ Refilter

Spec == Init /\ [][Next]_vars

(***************************************************************************)
(* src/unnamed/part_001, lines 134-314 (handler/getm3u), with              *)
(* src/unnamed/part_000 (config) and src/src/downloader.ts.                *)
(* A call either returns a value or throws an error of some class.         *)
(***************************************************************************)
Ok(v) == [ok |-> TRUE, value |-> v]
Throw(errorClass) == [ok |-> FALSE, error |-> errorClass]

\* a value that is a string, an array of strings or undefined
Str(s) == [kind |-> "string", v |-> s]
Arr(a) == [kind |-> "array", v |-> a]
Undefined == [kind |-> "undefined", v |-> <<>>]
StrOrUndefined(opt) == IF IsNone(opt) THEN Undefined ELSE Str(opt[1])
ArrOrUndefined(opt) == IF IsNone(opt) THEN Undefined ELSE Arr(opt[1])

\* .map(s => s.trim()).filter(Boolean)
trimAndFilter(items) ==
    SelectSeq([k \in 1..Len(items) |-> trim(items[k])], LAMBDA x : x # <<>>)

parseArrayParam(param) ==
    IF param.kind = "array" THEN trimAndFilter(param.v)
    ELSE IF param.kind = "string" THEN trimAndFilter(splitOn(param.v, ","))
    ELSE <<>>

IsLetter(c) ==
    \E k \in 1..Len(UpperCaseLetters) : c = UpperCaseLetters[k] \/ c = LowerCaseLetters[k]
IsDigit(c) == c \in {"0","1","2","3","4","5","6","7","8","9"}

\* new URL(s) does not throw: s starts with a scheme and a colon
urlParses(s) ==
    \E p \in 2..Len(s) :
        /\ s[p] = ":"
        /\ IsLetter(s[1])
        /\ \A k \in 1..(p - 1) : IsLetter(s[k]) \/ IsDigit(s[k]) \/ s[k] \in {"+", "-", "."}

\* /^[a-zA-Z0-9_-]+$/.test(s)
profileKeyFormatOk(s) ==
    /\ Len(s) > 0
    /\ \A k \in 1..Len(s) : IsLetter(s[k]) \/ IsDigit(s[k]) \/ s[k] \in {"_", "-"}

parseRequestParams(r) ==
    LET urlParam == r.url
        profileParam == r.profile
    IN  IF Truthy(urlParam) /\ Truthy(profileParam) THEN Throw("ValidationError")
        ELSE IF ~IsNone(urlParam) THEN
            IF ~urlParses(urlParam[1]) THEN Throw("ValidationError")
            ELSE Ok([url |-> urlParam[1],
                     channelsToExclude |-> parseArrayParam(StrOrUndefined(r.exclude)),
                     groupsToInclude |-> parseArrayParam(StrOrUndefined(r.groups))])
        ELSE IF ~IsNone(profileParam) THEN
            IF ~profileKeyFormatOk(profileParam[1]) THEN Throw("ValidationError")
            ELSE Ok([profileKey |-> profileParam[1]])
        ELSE Throw("ValidationError")

\* loadConfig is async: what the caller gets is a Promise, which settles to
\* the parsed file, or to { profiles: [] } when the file cannot be read
loadConfig(disk) ==
    [promise |-> TRUE,
     settled |-> IF IsNone(disk) THEN [profiles |-> <<>>] ELSE disk[1]]

\* configFile.profiles.find(...): reading .profiles of an object that has no
\* such property gives undefined, and undefined.find throws a TypeError
getConfigItem(profileKey, configFile) ==
    IF "profiles" \notin DOMAIN configFile THEN Throw("TypeError")
    ELSE LET hits == {k \in 1..Len(configFile.profiles) :
                         configFile.profiles[k].key = profileKey}
         IN  IF hits = {} THEN Throw("NotFoundError")
             ELSE Ok(configFile.profiles[SetMin(hits)].value)

getFilterOptionsFromUrlOrConfig(args, disk) ==
    IF "url" \in DOMAIN args THEN
        Ok([channelsToExclude |-> parseArrayParam(Arr(args.channelsToExclude)),
            groupsToInclude |-> parseArrayParam(Arr(args.groupsToInclude)),
            url |-> args.url])
    ELSE LET config == loadConfig(disk)
             profile == getConfigItem(args.profileKey, config)
         IN  IF ~profile.ok THEN profile
             ELSE Ok([channelsToExclude |->
                          parseArrayParam(ArrOrUndefined(profile.value.channelsToExclude)),
                      groupsToInclude |->
                          parseArrayParam(ArrOrUndefined(profile.value.groupsToInclude)),
                      url |-> profile.value.url])

\* download: axios.get rejects, and download throws a plain Error; or it
\* resolves, and download returns the body
download(remote) ==
    IF ~remote.ok THEN Throw("Error") ELSE Ok([data |-> remote.data])

\* the size above which the handler refuses a playlist
PlaylistSizeLimit == 10 * 1024 * 1024

\* the catch block of handleGetm3u
statusOfError(errorClass) ==
    IF errorClass = "ValidationError" THEN 400
    ELSE IF errorClass = "NotFoundError" THEN 404
    ELSE IF errorClass = "UpstreamError" THEN 502
    ELSE 500

AnswerError(errorClass) ==
    /\ res' = [status |-> Some(statusOfError(errorClass)), body |-> None,
               error |-> Some(errorClass)]
    /\ hpc' = "done"

\* handleGetm3u up to its await: the parameters, the filter options, the
\* call of download
HandleGetm3u ==
    /\ hpc = "start"
    /\ LET args == parseRequestParams(req)
           opts == getFilterOptionsFromUrlOrConfig(args.value, configOnDisk)
       IN  IF ~args.ok
           THEN AnswerError(args.error) /\ UNCHANGED <<filterOptions, downloads>>
           ELSE IF ~opts.ok
           THEN AnswerError(opts.error) /\ UNCHANGED <<filterOptions, downloads>>
           ELSE /\ filterOptions' = Some(opts.value)
                /\ downloads' = Append(downloads, opts.value.url)
                /\ hpc' = "awaiting"
                /\ UNCHANGED res
    /\ UNCHANGED <<req, configOnDisk, upstream, filterCalls, fvars>>

\* the awaited download returns: size check, filter, headers, send
DownloadResolved ==
    /\ hpc = "awaiting"
    /\ download(upstream).ok
    /\ LET serverResponse == download(upstream).value
           filterArg == [groupsToInclude |-> Some(filterOptions[1].groupsToInclude),
                         channelsToExclude |-> Some(filterOptions[1].channelsToExclude),
                         fileContents |-> serverResponse.data]
       IN  IF Len(serverResponse.data) > PlaylistSizeLimit
           THEN AnswerError("UpstreamError") /\ UNCHANGED filterCalls
           ELSE /\ filterCalls' = Append(filterCalls, filterArg)
                /\ res' = [status |-> Some(200), body |-> Some(filterM3u(filterArg)),
                           error |-> None]
                /\ hpc' = "done"
    /\ UNCHANGED <<req, configOnDisk, upstream, filterOptions, downloads, fvars>>

\* the awaited download throws
DownloadRejected ==
    /\ hpc = "awaiting"
    /\ ~download(upstream).ok
    /\ AnswerError(download(upstream).error)
    /\ UNCHANGED <<req, configOnDisk, upstream, filterOptions, downloads, filterCalls,
                   fvars>>

\* the requests, configuration files and remote answers of the model
UrlA == <<"h","t","t","p",":","/","/","h","/","a">>
UrlB == <<"h","t","t","p",":","/","/","h","/","b">>
NotAUrl == <<"h","/","a">>
KeyP1 == <<"p","1">>
KeyP2 == <<"p","2">>
KeyBad == <<"p"," ","1">>

UrlParams == {None, Some(UrlA), Some(NotAUrl)}
ProfileParams == {None, Some(KeyP1), Some(KeyP2), Some(KeyBad)}
ExcludeParams == {None, Some(espn)}
GroupsParams == {None, Some(Sports \o <<",", " ">>)}

ProfileP1 == [key |-> KeyP1,
              value |-> [url |-> UrlB, groupsToInclude |-> Some(<<Sports>>),
                         channelsToExclude |-> None]]
ConfigFiles == {None, Some([profiles |-> <<ProfileP1>>])}

RemoteAnswers ==
    {[ok |-> FALSE, data |-> <<>>],
     [ok |-> TRUE, data |-> join(<<ExtM3uHeader, LineSportsEspn, LineUrl>>)],
     [ok |-> TRUE, data |-> join(<<LineNoGroup, LineUrl, LineBlank>>)]}

HandlerInit ==
    /\ \E u \in UrlParams, p \in ProfileParams, e \in ExcludeParams, g \in GroupsParams :
          req = [url |-> u, profile |-> p, exclude |-> e, groups |-> g]
    /\ configOnDisk \in ConfigFiles
    /\ upstream \in RemoteAnswers
    /\ hpc = "start"
    /\ filterOptions = None
    /\ res = [status |-> None, body |-> None, error |-> None]
    /\ downloads = <<>>
    /\ filterCalls = <<>>
    /\ FilterIdle

HandlerNext == HandleGetm3u \/ DownloadResolved \/ DownloadRejected

HandlerSpec == HandlerInit /\ [][HandlerNext]_vars

(***************************************************************************)
(* Vocabulary of the properties.                                           *)
(***************************************************************************)
\* a rule list that is absent or an empty list
NoEntries(list) == IsNone(list) \/ list[1] = <<>>
EmptyRuleSet(opts) == NoEntries(opts.groupsToInclude) /\ NoEntries(opts.channelsToExclude)

\* the display name and the category the called implementation resolves
ChannelNameFor(v, line) ==
    IF v = "m3uparser" THEN channelNameOf(line)
    ELSE channelNameOfFast(line, channelNamePatterns)
CategoryFor(v, line) ==
    IF v = "m3uparser" THEN extractGroupName(line)
    ELSE extractGroupNameFast(line, groupTitlePatterns)

\* the display name, lower-cased, contains an exclusion entry, lower-cased
NameMatchesExclusion(v, line, opts) ==
    /\ ~NoEntries(opts.channelsToExclude)
    /\ ~IsNone(ChannelNameFor(v, line))
    /\ \E k \in 1..Len(opts.channelsToExclude[1]) :
          includes(toLowerCase(ChannelNameFor(v, line)[1]),
                   toLowerCase(opts.channelsToExclude[1][k]))

CategoryAllowed(v, line, opts) ==
    \/ NoEntries(opts.groupsToInclude)
    \/ arrayIncludes(opts.groupsToInclude[1], CategoryFor(v, line))

SatisfiesRules(v, line, opts) ==
    ~NameMatchesExclusion(v, line, opts) /\ CategoryAllowed(v, line, opts)

\* the lines of the returned text
ResultLines == split(result[1])
\* the lines of the text that was passed in, trimmed
InputLines == [k \in 1..Len(split(options.fileContents)) |->
                  trim(split(options.fileContents)[k])]

\* C1: with an empty rule set (lists empty or absent) filterM3u returns the
\* input text unchanged.
C1_Passthrough ==
    (pc = "done" /\ EmptyRuleSet(options)) => result = Some(options.fileContents)

\* C2: with a non-empty rule set every metadata line of the output satisfies
\* the rules: its display name matches no exclusion entry and its category
\* is in the inclusion set when that set is non-empty.
C2_OutputSatisfiesRules ==
    (pc = "done" /\ ~EmptyRuleSet(options)) =>
        \A k \in 1..Len(ResultLines) :
            isMetadataLine(ResultLines[k]) => SatisfiesRules(variant, ResultLines[k], options)

\* C3: filtering the output of filterM3u again with the same rules returns
\* that output exactly.
C3_Idempotent ==
    (pc = "done" /\ pass = 2) => result = firstResult

\* C4: with a non-empty rule set no metadata line of the output is directly
\* followed by another metadata line.
C4_PairingIntegrity ==
    (pc = "done" /\ ~EmptyRuleSet(options)) =>
        \A k \in 1..(Len(ResultLines) - 1) :
            isMetadataLine(ResultLines[k]) => ~isMetadataLine(ResultLines[k + 1])

\* C5: with a non-empty rule set the output ends in exactly one newline.
C5_SingleTrailingNewline ==
    (pc = "done" /\ ~EmptyRuleSet(options)) =>
        /\ endsWith(result[1], <<"\n">>)
        /\ ~endsWith(result[1], <<"\n", "\n">>)

\* the line under the cursor, trimmed, while the loop runs
AtLine == pc = "loop" /\ i < Len(fileContentLines)
CursorLine == trim(fileContentLines[i + 1])

\* C6: when the cursor reaches a metadata line whose display name, lower-
\* cased, contains an exclusion entry, lower-cased, the step emits nothing
\* and moves the cursor past the metadata line and the line after it,
\* whatever the inclusion set holds.
C6_ExcludedEntryDropped ==
    [][(/\ AtLine
        /\ isMetadataLine(CursorLine)
        /\ NameMatchesExclusion(variant, CursorLine, options))
       => (output' = output /\ i' = i + 2 /\ pc' = "loop")]_vars

\* the entry "ESPN HD" of category Sports, first line of the input, has just
\* been dropped for the exclusion entry "espn" although Sports is included
C6_Witness ==
    /\ pc = "loop" /\ i = 2 /\ Len(fileContentLines) >= 2
    /\ trim(fileContentLines[1]) = LineSportsEspn
    /\ ~isMetadataLine(trim(fileContentLines[2]))
    /\ options.channelsToExclude = Some(<<espn>>)
    /\ options.groupsToInclude = Some(<<Sports>>)
    /\ ChannelNameFor(variant, LineSportsEspn) = Some(<<"E","S","P","N"," ","H","D">>)
    /\ output = <<ExtM3uHeader>>

\* the category as the first successful group-title match, else "Unknown"
FirstMatchCategory(line) ==
    LET m == extractParameterFromPatterns(line, groupTitlePatterns)
    IN  IF IsNone(m) THEN Unknown ELSE m[1]

\* C7: a metadata line reached by the cursor and not excluded is kept if and
\* only if the inclusion set is empty, or its category (first successful
\* group-title match, else "Unknown") is non-empty and a member of the set.
C7_KeptIffIncluded ==
    [][(/\ AtLine
        /\ isMetadataLine(CursorLine)
        /\ ~NameMatchesExclusion(variant, CursorLine, options))
       => ((Len(output') > Len(output) /\ output'[Len(output) + 1] = CursorLine)
             <=> \/ NoEntries(options.groupsToInclude)
                 \/ /\ FirstMatchCategory(CursorLine) # <<>>
                    /\ arrayIncludes(options.groupsToInclude[1],
                                     FirstMatchCategory(CursorLine)))]_vars

\* C8: with a non-empty rule set, when the last line of the input is a
\* metadata line, the output ends with that line (and a newline) if the line
\* passes exclusion and inclusion, and does not hold it otherwise.
C8_TrailingMetadataLine ==
    (/\ pc = "done" /\ pass = 1 /\ ~EmptyRuleSet(options)
     /\ isMetadataLine(InputLines[Len(InputLines)]))
    => LET last == InputLines[Len(InputLines)]
           n == Len(ResultLines)
       IN  IF SatisfiesRules(variant, last, options)
           THEN n >= 2 /\ ResultLines[n - 1] = last /\ ResultLines[n] = <<>>
           ELSE \A k \in 1..n : ResultLines[k] # last

(***************************************************************************)
(* Properties of the handler.                                              *)
(***************************************************************************)
\* C9: when the fetch of the remote playlist fails, the request is answered
\* with status 502, the filter is not called and no playlist is sent.
C9_UpstreamFailure ==
    (hpc = "done" /\ Len(downloads) > 0 /\ ~upstream.ok) =>
        /\ res.status = Some(502)
        /\ filterCalls = <<>>
        /\ res.body = None

\* the profiles of the configuration that loadConfig resolves to
ConfiguredProfiles == loadConfig(configOnDisk).settled.profiles
ProfileRequest ==
    IsNone(req.url) /\ ~IsNone(req.profile) /\ profileKeyFormatOk(req.profile[1])

\* C10: a request with a well-formed profile key and no URL is answered with
\* status 404 and without a fetch when the key is not in the configuration;
\* when it is, the fetch uses the profile's url and the filter its rules.
C10_ProfileLookup ==
    (hpc = "done" /\ ProfileRequest) =>
        LET hits == {k \in 1..Len(ConfiguredProfiles) :
                        ConfiguredProfiles[k].key = req.profile[1]}
        IN  IF hits = {}
            THEN res.status = Some(404) /\ downloads = <<>>
            ELSE LET profile == ConfiguredProfiles[SetMin(hits)].value
                 IN  /\ downloads = <<profile.url>>
                     /\ upstream.ok =>
                            /\ Len(filterCalls) = 1
                            /\ filterCalls[1].groupsToInclude =
                                   Some(parseArrayParam(ArrOrUndefined(profile.groupsToInclude)))
                            /\ filterCalls[1].channelsToExclude =
                                   Some(parseArrayParam(ArrOrUndefined(profile.channelsToExclude)))

(***************************************************************************)
(* Properties of the lines outside an entry and of the display name.       *)
(***************************************************************************)
\* the cursor is on a non-blank line that is neither header nor metadata
StrayLineAtCursor ==
    /\ AtLine
    /\ CursorLine # <<>>
    /\ ~isExcludedLine(CursorLine)
    /\ ~isMetadataLine(CursorLine)

\* the most recent entry the cursor reached passed exclusion and inclusion
LastEntryKept ==
    /\ ~IsNone(currentGroup)
    /\ \/ NoEntries(options.groupsToInclude)
       \/ arrayIncludes(options.groupsToInclude[1], currentGroup[1])

\* C11 as stated: every stray line the cursor reaches is emitted, whatever
\* happened to the most recent entry and also when there was none.
C11_StrayLineAlwaysEmitted ==
    [][StrayLineAtCursor => (output' = Append(output, CursorLine) /\ i' = i + 1)]_vars

\* C11, amended: a stray line the cursor reaches is emitted, trimmed, if and
\* only if the most recent entry the cursor reached was kept; after an entry
\* dropped by inclusion or excluded, and before any entry, it is dropped.
\* The cursor moves by one line either way.
C11_StrayLineFollowsLastEntry ==
    [][StrayLineAtCursor =>
          /\ i' = i + 1
          /\ output' = IF LastEntryKept THEN Append(output, CursorLine) ELSE output]_vars

\* a comment line right after an excluded entry and its URL line has just
\* been passed over without being emitted
C11_Witness ==
    /\ pc = "loop" /\ i = 3
    /\ fileContentLines = <<LineSportsEspn, LineUrl, LineComment>>
    /\ options.channelsToExclude = Some(<<espn>>)
    /\ IsNone(currentGroup)
    /\ output = <<ExtM3uHeader>>

\* the trimmed text after the last comma of the line, absent without a comma
TextAfterLastComma(line) ==
    LET commas == {k \in 1..Len(line) : line[k] = ","}
    IN  IF commas = {} THEN None
        ELSE Some(trim(SubSeq(line, SetMax(commas) + 1, Len(line))))

\* the display name: tvg-name double-quoted, single-quoted, unquoted, the
\* first that matches; else the text after the last comma
DisplayNameByLastComma(line) ==
    IF ~IsNone(match(line, channelNamePatterns[1])) THEN match(line, channelNamePatterns[1])
    ELSE IF ~IsNone(match(line, channelNamePatterns[2])) THEN match(line, channelNamePatterns[2])
    ELSE IF ~IsNone(match(line, channelNamePatterns[3])) THEN match(line, channelNamePatterns[3])
    ELSE TextAfterLastComma(line)

\* C12: with a non-empty exclusion list, the entry under the cursor is
\* excluded exactly when its display name (first tvg-name match, else the
\* trimmed text after the last comma, else absent) contains an exclusion
\* entry, case-insensitively; with no tvg-name and no comma it is never
\* excluded.
C12_DisplayNameResolution ==
    [][(/\ AtLine
        /\ isMetadataLine(CursorLine)
        /\ ~NoEntries(options.channelsToExclude))
       => LET name == DisplayNameByLastComma(CursorLine)
              matches ==
                  /\ ~IsNone(name)
                  /\ \E k \in 1..Len(options.channelsToExclude[1]) :
                        includes(toLowerCase(name[1]),
                                 toLowerCase(options.channelsToExclude[1][k]))
          IN  (IsNone(currentGroup') /\ output' = output) <=> matches]_vars

====
